---- MODULE Spec2Model ----
(***************************************************************************)
(* A model of the chat client of frontend/src/components/Chat.jsx:         *)
(*   - the Chat component (transcript, input, loading flag, conversation   *)
(*     identifier, its localStorage persistence effect, sendMessage and    *)
(*     the key handler), under the specification Spec;                     *)
(*   - the TextGeneration reveal animator (effect, step timers, cleanup),  *)
(*     under the specifications SpecAnim, SpecAnimFair and SpecProps.      *)
(* Strings are sequences of one-character strings, so that trim, slice,    *)
(* concatenation and String(null) are computed as the code computes them.  *)
(***************************************************************************)
EXTENDS Integers, Sequences, FiniteSets, TLC

\* ------------------------------------------------------------------ bounds
MaxSends == 2
MaxReloads == 1

\* ------------------------------------------------------------ JS values
Null == [t |-> "null", s |-> <<>>]
Undefined == [t |-> "undefined", s |-> <<>>]
Str(s) == [t |-> "str", s |-> s]

\* JavaScript truthiness of null, undefined and strings.
Truthy(v) == v.t = "str" /\ v.s # <<>>

\* a || b
Or(a, b) == IF Truthy(a) THEN a ELSE b

\* String(v), the conversion localStorage.setItem applies to its value.
JsString(v) ==
  IF v.t = "str" THEN v.s
  ELSE IF v.t = "null" THEN <<"n", "u", "l", "l">>
  ELSE <<"u", "n", "d", "e", "f", "i", "n", "e", "d">>

\* ------------------------------------------------------- program literals
ErrorPrefix == <<"E", "r", "r", "o", "r", ":", " ">>
ServerError == <<"S", "e", "r", "v", "e", "r", " ", "e", "r", "r", "o", "r">>
UnknownError == <<"u", "n", "k", "n", "o", "w", "n", " ", "e", "r", "r", "o", "r">>
NoResponse == <<"N", "o", " ", "r", "e", "s", "p", "o", "n", "s", "e">>

\* ----------------------------------------------------------------- trim
IsSpace(c) == c \in {" ", "\n", "\t"}

RECURSIVE TrimStart(_)
TrimStart(s) ==
  IF s # <<>> /\ IsSpace(Head(s)) THEN TrimStart(Tail(s)) ELSE s

RECURSIVE TrimEnd(_)
TrimEnd(s) ==
  IF s # <<>> /\ IsSpace(s[Len(s)]) THEN TrimEnd(SubSeq(s, 1, Len(s) - 1)) ELSE s

Trim(s) == TrimEnd(TrimStart(s))

\* ------------------------------------------------------------ input sets
\* What the user can have in the textarea.
Inputs == { <<>>, <<" ">>, <<" ", "y", "o", "\n">> }

\* Identifiers the remote endpoint hands out.
T1 == <<"t", "1">>
T2 == <<"t", "2">>

NoData ==
  [detail |-> Undefined, response_content |-> Undefined, response |-> Undefined,
   thread_id |-> Undefined, threadId |-> Undefined]

\* Response bodies. kind: "json" (parses), "text" (does not parse), "none" (null
\* body), "broken" (the stream errors while it is read).
JsonBody(raw, data) == [kind |-> "json", raw |-> raw, data |-> data]
TextBody(raw) == [kind |-> "text", raw |-> raw, data |-> NoData]
NoBody == [kind |-> "none", raw |-> <<>>, data |-> NoData]
BrokenBody == [kind |-> "broken", raw |-> <<>>, data |-> NoData]

\* Bodies of 2xx responses.
SuccessData ==
  { [NoData EXCEPT !.response_content = Str(<<"X">>), !.thread_id = Str(T1)],
    [NoData EXCEPT !.response_content = Str(<<"X">>), !.response = Str(<<"Y">>),
                   !.threadId = Str(T2)],
    [NoData EXCEPT !.response = Str(<<"Y">>)],
    [NoData EXCEPT !.response = Str(<<>>), !.thread_id = Str(T2), !.threadId = Str(T1)],
    [NoData EXCEPT !.response_content = Str(<<"X">>), !.thread_id = Str(<<>>),
                   !.threadId = Str(T1)],
    NoData }

\* Bodies of non-2xx responses.
ErrorBodies ==
  { JsonBody(<<"{", "d", "}">>, [NoData EXCEPT !.detail = Str(<<"b", "k">>)]),
    JsonBody(<<"{", "e", "}">>, [NoData EXCEPT !.detail = Str(<<>>)]),
    JsonBody(<<"{", "}">>, NoData),
    TextBody(<<"o", "o", "p", "s">>),
    NoBody,
    BrokenBody }

\* Messages of the exceptions the runtime raises (fetch rejection, JSON parse).
RuntimeMsgs == { <<"F", "f">>, <<>> }

\* kind "net": fetch rejects; otherwise a Response with ok, statusText, body.
Responses ==
  { [kind |-> "net", ok |-> FALSE, statusText |-> <<>>, body |-> NoBody, errmsg |-> m] :
      m \in RuntimeMsgs }
  \cup
  { [kind |-> "res", ok |-> TRUE, statusText |-> <<>>, body |-> JsonBody(<<>>, d),
     errmsg |-> <<>>] : d \in SuccessData }
  \cup
  { [kind |-> "res", ok |-> TRUE, statusText |-> <<>>, body |-> TextBody(<<"<">>),
     errmsg |-> <<"F", "f">>] }
  \cup
  { [kind |-> "res", ok |-> FALSE, statusText |-> <<"B", "G">>, body |-> b,
     errmsg |-> <<"F", "f">>] : b \in ErrorBodies }
  \cup
  { [kind |-> "res", ok |-> FALSE, statusText |-> <<>>, body |-> BrokenBody,
     errmsg |-> <<"F", "f">>] }

NoRes == [kind |-> "none", ok |-> FALSE, statusText |-> <<>>, body |-> NoBody, errmsg |-> <<>>]

\* --------------------------------------------------------- Response body
\* res.json(): [ok, val, used]; used is the body's bodyUsed flag afterwards.
JsonRead(body, used) ==
  IF used THEN [ok |-> FALSE, val |-> NoData, used |-> TRUE]
  ELSE IF body.kind = "none" THEN [ok |-> FALSE, val |-> NoData, used |-> FALSE]
  ELSE IF body.kind = "json" THEN [ok |-> TRUE, val |-> body.data, used |-> TRUE]
  ELSE [ok |-> FALSE, val |-> NoData, used |-> TRUE]

\* res.text(): [ok, val]
TextRead(body, used) ==
  IF used THEN [ok |-> FALSE, val |-> <<>>]
  ELSE IF body.kind = "broken" THEN [ok |-> FALSE, val |-> <<>>]
  ELSE [ok |-> TRUE, val |-> body.raw]

\* ------------------------------------------------------------ sendMessage
\* The error branch: errText of a response that is not ok.
ErrText(res) ==
  LET j1 == JsonRead(res.body, FALSE)
      \* (await res.json()).detail || JSON.stringify(await res.json()):
      \* the second res.json() reads a body that the first one used.
      j2 == JsonRead(res.body, j1.used)
      t == TextRead(res.body, IF j1.ok THEN j2.used ELSE j1.used)
  IN  IF j1.ok /\ Truthy(j1.val.detail) THEN j1.val.detail.s
      ELSE IF j1.ok /\ j2.ok THEN res.body.raw   \* JSON.stringify of the parsed body
      ELSE IF t.ok THEN t.val ELSE res.statusText

\* err.message of what the try block throws, or Undefined when it completes.
Thrown(res) ==
  IF res.kind = "net" THEN Str(res.errmsg)
  ELSE IF ~res.ok THEN Str(IF ErrText(res) # <<>> THEN ErrText(res) ELSE ServerError)
  ELSE IF ~JsonRead(res.body, FALSE).ok THEN Str(res.errmsg)
  ELSE Undefined

BotTextMut(data) == Or(data.response, Or(data.response_content, Str(NoResponse))).s
BotTextBare(data) == Or(data.response_content, data.response).s
BotText(data) == Or(data.response_content, Or(data.response, Str(NoResponse))).s

ReturnedThreadIdMut(data) == Or(data.threadId, Or(data.thread_id, Null))
ReturnedThreadId(data) == Or(data.thread_id, Or(data.threadId, Null))

CatchTextMut(msg) == Or(msg, Str(UnknownError)).s
CatchText(msg) == ErrorPrefix \o Or(msg, Str(UnknownError)).s

\* The text of the assistant message one send appends for response res.
ReplyText(res) ==
  IF Thrown(res) = Undefined THEN BotText(res.body.data) ELSE CatchText(Thrown(res))

\* setMessages(prev => [...prev, {from: 'bot', ...}]) of the try block, or of the
\* catch block when the try block throws.
AppendReplyMut(msgs, sid, res) ==
  IF Thrown(res) = Undefined
  THEN Append(msgs, [from |-> "bot", text |-> ReplyText(res), sid |-> sid])
  ELSE msgs
AppendReply(msgs, sid, res) ==
  Append(msgs, [from |-> "bot", text |-> ReplyText(res), sid |-> sid])

\* ------------------------------------------------------------------ Message
\* /^\(tool:\s*([^\)]+)\)\s*(.*)/i over sequences of characters.
ToolOpen == <<"(", "t", "o", "o", "l", ":">>

\* The i flag, on the letters of ToolOpen.
Lower(c) ==
  CASE c = "T" -> "t" [] c = "O" -> "o" [] c = "L" -> "l" [] OTHER -> c

\* . matches anything but a line terminator.
IsLineEnd(c) == c \in {"\n", "\r"}

\* \s* from position p: the position after the white space.
RECURSIVE SkipSpace(_, _)
SkipSpace(s, p) ==
  IF p <= Len(s) /\ IsSpace(s[p]) THEN SkipSpace(s, p + 1) ELSE p

\* [^\)]+ runs up to the first ")" at or after p; 0 when there is none.
RECURSIVE FindClose(_, _)
FindClose(s, p) ==
  IF p > Len(s) THEN 0 ELSE IF s[p] = ")" THEN p ELSE FindClose(s, p + 1)

\* (.*) from position p: the position of the first line terminator, or Len + 1.
RECURSIVE LineEnd(_, _)
LineEnd(s, p) ==
  IF p <= Len(s) /\ ~IsLineEnd(s[p]) THEN LineEnd(s, p + 1) ELSE p

NoMatch == [matched |-> FALSE, g1 |-> <<>>, g2 |-> <<>>]

\* m.text.match(...): [matched, g1, g2]
ToolMatch(s) ==
  IF Len(s) < Len(ToolOpen) \/ [i \in 1..Len(ToolOpen) |-> Lower(s[i])] # ToolOpen
  THEN NoMatch
  ELSE LET a == Len(ToolOpen) + 1
           q == SkipSpace(s, a)
           c == FindClose(s, a)
           \* \s* gives one character back when the name would be empty
           g == IF q < c THEN q ELSE q - 1
           r == SkipSpace(s, c + 1)
       IN  IF c = 0 \/ g < a THEN NoMatch
           ELSE [matched |-> TRUE, g1 |-> SubSeq(s, g, c - 1),
                 g2 |-> SubSeq(s, r, LineEnd(s, r) - 1)]

\* Texts a message can carry.
MaxRest == 3
Seqs(S, n) == UNION { [1..k -> S] : k \in 0..n }
Names == { <<"w">>, <<"w", "k">>, <<"w", " ">> }
Rests == Seqs({"a", "b", "\n"}, MaxRest)
Annotated == { ToolOpen \o <<" ">> \o n \o <<")", " ">> \o r : n \in Names, r \in Rests }
Others ==
  { <<>>, <<"h", "i">>, <<"h", "\n", "i">>,
    <<"h", " ">> \o ToolOpen \o <<" ", "w", ")", " ", "a">>,
    <<"(", "t", "o", "o", "l", " ", "w", ")", " ", "a">>,
    ToolOpen \o <<" ", "w", " ", "a">>,
    ToolOpen \o <<")", " ", "a">>,
    ToolOpen \o <<" ", " ", ")", "a">>,
    <<"(", "T", "o", "o", "L", ":", "w", ")", "\n", "a", "\n", "b">> }
MsgTexts == Annotated \cup Others

\* ------------------------------------------------------------------ state
VARIABLES
  messages,       \* the transcript: <<[from, text, sid]>>, sid the send it belongs to
  input,          \* the textarea's value
  loading,        \* the loading flag
  threadId,       \* the conversation identifier (Null or Str)
  storage,        \* localStorage['chat_thread_id']: Null when the key is absent
  effectPending,  \* the persistence effect is scheduled and has not run
  reqs,           \* the sendMessage calls awaiting their response
  issued,         \* the sends of this page load
  nextSid,        \* number of sends so far, all page loads
  reloads,        \* number of page reloads so far
  everReturned,   \* the endpoint has returned an identifier (any page load)
  lastSaved,      \* the last returned identifier the persistence effect wrote
  lastRes,        \* the response the last completed send received
  lastOp          \* the handler that ran last

VARIABLES
  text,               \* TextGeneration: the text prop of the last render
  animate,            \* TextGeneration: the animate prop of the last render
  visible,            \* TextGeneration: the visible state
  mounted,            \* a TextGeneration instance is mounted
  animEffectPending,  \* the effect of the last render is scheduled and has not run
  effects,            \* the closures of the effect runs that reached line 13:
                      \*   <<[text, i, cancelled]>>, indexed by effect run
  cleanup,            \* the effect run whose cleanup React holds, 0 for none
  timers,             \* pending setTimeout callbacks: {[eff, kind]}
  propChanges         \* number of renders with changed props so far

\* One rendered Message.
VARIABLES
  m,              \* the prop: [from, text]
  tool,           \* the tool label (Null or Str)
  content,        \* the body
  animateMsg,     \* the animate flag handed to TextGeneration
  msgRendered     \* Message has run

chatVars ==
  <<messages, input, loading, threadId, storage, effectPending, reqs, issued,
    nextSid, reloads, everReturned, lastSaved, lastRes, lastOp>>

animVars ==
  <<text, animate, visible, mounted, animEffectPending, effects, cleanup, timers,
    propChanges>>

msgVars == <<m, tool, content, animateMsg, msgRendered>>

vars == <<chatVars, animVars, msgVars>>

\* localStorage.getItem('chat_thread_id') || null
LoadThreadIdMut == Null

LoadThreadId == Or(storage, Null)

ChatInit ==
  /\ messages = <<>>
  /\ input = <<>>
  /\ loading = FALSE
  /\ storage = Null
  /\ threadId = Or(Null, Null)
  /\ effectPending = TRUE
  /\ reqs = {}
  /\ issued = {}
  /\ nextSid = 0
  /\ reloads = 0
  /\ everReturned = FALSE
  /\ lastSaved = Null
  /\ lastRes = NoRes
  /\ lastOp = "mount"

\* No TextGeneration instance.
AnimOff ==
  /\ text = <<>>
  /\ animate = TRUE
  /\ visible = <<>>
  /\ mounted = FALSE
  /\ animEffectPending = FALSE
  /\ effects = <<>>
  /\ cleanup = 0
  /\ timers = {}
  /\ propChanges = 0

\* No Message instance.
MsgOff ==
  /\ m = [from |-> "user", text |-> <<>>]
  /\ tool = Null
  /\ content = <<>>
  /\ animateMsg = FALSE
  /\ msgRendered = FALSE

Init == ChatInit /\ AnimOff /\ MsgOff

\* useEffect(() => localStorage.setItem('chat_thread_id', threadId), [threadId])
PersistEffect ==
  /\ effectPending
  /\ storage' = Str(JsString(threadId))
  /\ effectPending' = FALSE
  /\ lastSaved' = IF everReturned /\ Truthy(threadId) /\ threadId.s \in {T1, T2}
                  THEN threadId ELSE lastSaved
  /\ lastOp' = "persist"
  /\ lastRes' = NoRes
  /\ UNCHANGED <<messages, input, loading, threadId, reqs, issued, nextSid, reloads,
                 everReturned>>
  /\ UNCHANGED <<animVars, msgVars>>

\* onChange of the textarea
Type(v) ==
  /\ ~effectPending
  /\ v # input
  /\ input' = v
  /\ lastOp' = "type"
  /\ lastRes' = NoRes
  /\ UNCHANGED <<messages, loading, threadId, storage, effectPending, reqs, issued,
                 nextSid, reloads, everReturned, lastSaved>>
  /\ UNCHANGED <<animVars, msgVars>>

\* if(!input.trim()) return
IsBlankMut(s) == s = <<>>
IsBlank(s) == Trim(s) = <<>>

\* sendMessage up to its first await
SendMessage ==
  /\ ~effectPending
  /\ IF IsBlank(input)
     THEN /\ lastOp' = "noop"
          /\ UNCHANGED <<messages, input, loading, reqs, issued, nextSid>>
     ELSE /\ nextSid < MaxSends
          /\ input' = <<>>
          /\ messages' = Append(messages,
                                [from |-> "user", text |-> Trim(input), sid |-> nextSid + 1])
          /\ loading' = TRUE
          /\ reqs' = reqs \cup
               { [sid |-> nextSid + 1,
                  user_message |-> Trim(input),
                  thread_id |-> Or(threadId, Str(<<>>)).s,
                  noIdYet |-> ~everReturned,
                  first |-> issued = {},
                  saved |-> lastSaved] }
          /\ issued' = issued \cup {nextSid + 1}
          /\ nextSid' = nextSid + 1
          /\ lastOp' = "send"
  /\ lastRes' = NoRes
  /\ UNCHANGED <<threadId, storage, effectPending, reloads, everReturned, lastSaved>>
  /\ UNCHANGED <<animVars, msgVars>>

\* onClick of the Send button, disabled={loading || !input.trim()}
ClickSend ==
  /\ ~(loading \/ Trim(input) = <<>>)
  /\ SendMessage

\* onKeyDown of the textarea
KeyEvents == [key : {"Enter", "a"}, ctrlKey : BOOLEAN, shiftKey : BOOLEAN]

HandleKey(e) ==
  IF e.key = "Enter" /\ (e.ctrlKey \/ ~e.shiftKey)
  THEN SendMessage
  ELSE /\ ~effectPending
       /\ lastOp' = "key"
       /\ lastRes' = NoRes
       /\ UNCHANGED <<messages, input, loading, threadId, storage, effectPending, reqs,
                      issued, nextSid, reloads, everReturned, lastSaved>>
       /\ UNCHANGED <<animVars, msgVars>>

\* sendMessage from the fetch's settlement to its end
Resolve(r, res) ==
  /\ ~effectPending
  /\ r \in reqs
  /\ LET tid == IF Thrown(res) = Undefined THEN ReturnedThreadId(res.body.data) ELSE Null
     IN  /\ threadId' = IF Truthy(tid) THEN tid ELSE threadId
         /\ effectPending' = (Truthy(tid) /\ tid # threadId)
         /\ everReturned' = (everReturned \/ Truthy(tid))
  /\ messages' = AppendReply(messages, r.sid, res)
  /\ loading' = FALSE
  /\ reqs' = reqs \ {r}
  /\ lastRes' = res
  /\ lastOp' = "resolve"
  /\ UNCHANGED <<input, storage, issued, nextSid, reloads, lastSaved>>
  /\ UNCHANGED <<animVars, msgVars>>

\* The page is reloaded: the component is constructed again from localStorage.
Reload ==
  /\ reloads < MaxReloads
  /\ reloads' = reloads + 1
  /\ messages' = <<>>
  /\ input' = <<>>
  /\ loading' = FALSE
  /\ threadId' = LoadThreadId
  /\ effectPending' = TRUE
  /\ reqs' = {}
  /\ issued' = {}
  /\ lastRes' = NoRes
  /\ lastOp' = "mount"
  /\ UNCHANGED <<storage, nextSid, everReturned, lastSaved>>
  /\ UNCHANGED <<animVars, msgVars>>

Next ==
  \/ PersistEffect
  \/ \E v \in Inputs : Type(v)
  \/ ClickSend
  \/ \E e \in KeyEvents : HandleKey(e)
  \/ \E r \in reqs, res \in Responses : Resolve(r, res)
  \/ Reload

Spec == Init /\ [][Next]_vars

\* ------------------------------------------------------------ Chat claims
Pending == { r.sid : r \in reqs }

CountMsgs(from, sid) ==
  Cardinality({ i \in DOMAIN messages : messages[i].from = from /\ messages[i].sid = sid })

\* C1: at most one transport request is outstanding at any time, and no send
\* appends a second user message while one is in flight (stated as the claim
\* states it; the Enter key handler violates it).
C1_AtMostOneOutstanding ==
  /\ Cardinality(reqs) <= 1
  /\ Cardinality({ i \in DOMAIN messages :
                     messages[i].from = "user" /\ messages[i].sid \in Pending }) <= 1

\* C2: every send with a non-blank input has exactly one user message in the
\* transcript from the moment it is issued, no assistant message while its request
\* is outstanding, and exactly one assistant message, after its user message, once
\* the request has settled (success, non-2xx, or network/parse failure).
C2_OneUserOneAssistant ==
  \A sid \in issued :
    /\ CountMsgs("user", sid) = 1
    /\ CountMsgs("bot", sid) = (IF sid \in Pending THEN 0 ELSE 1)
    /\ \A i, j \in DOMAIN messages :
         (messages[i].sid = sid /\ messages[j].sid = sid
            /\ messages[i].from = "user" /\ messages[j].from = "bot") => i < j

\* A send that succeeded and a send that failed, both settled, in one transcript.
C2_Witness ==
  /\ Cardinality(issued) = 2
  /\ Pending = {}
  /\ \E i, j \in DOMAIN messages :
       /\ messages[i].from = "bot" /\ messages[j].from = "bot"
       /\ messages[i].sid # messages[j].sid
       /\ messages[i].text = <<"X">>
       /\ SubSeq(messages[j].text, 1, Len(ErrorPrefix)) = ErrorPrefix

\* C3: a request sent while the endpoint has never returned an identifier carries
\* thread_id = '' (stated as the claim states it; after a reload the identifier is
\* re-read as the string "null" and sent).
C3_EmptyThreadIdUntilReturned ==
  \A r \in reqs : r.noIdYet => r.thread_id = <<>>

\* C4: after a reload, the first request carries the identifier that the last
\* successful exchange returned and the persistence effect wrote.
C4_ResumeAfterReload ==
  \A r \in reqs :
    (reloads > 0 /\ r.first /\ Truthy(r.saved)) => r.thread_id = r.saved.s

C4_Witness ==
  \E r \in reqs :
    reloads > 0 /\ r.first /\ Truthy(r.saved) /\ r.thread_id = r.saved.s

\* C5: the message surfaced for a non-2xx response is the body's detail if it is
\* JSON with a detail, else the raw body text, else the status line (stated as the
\* claim states it; the raw body text is never surfaced, because the body has been
\* consumed by the first res.json()).
SurfacedByClaim(res) ==
  IF res.body.kind = "json" /\ Truthy(res.body.data.detail) THEN res.body.data.detail.s
  ELSE IF res.body.kind # "broken" THEN res.body.raw
  ELSE res.statusText

C5_DetailElseBodyElseStatus ==
  (lastRes.kind = "res" /\ ~lastRes.ok /\ SurfacedByClaim(lastRes) # <<>>)
    => messages[Len(messages)].text = ErrorPrefix \o SurfacedByClaim(lastRes)

\* ------------------------------------------------------- TextGeneration
MaxChanges == 2

\* if(len > 1200)
LongLimit == 1200

Min(a, b) == IF a < b THEN a ELSE b

\* text.slice(0, i)
Slice(t, i) == SubSeq(t, 1, Min(i, Len(t)))

IsPrefix(p, t) == Len(p) <= Len(t) /\ p = SubSeq(t, 1, Len(p))

Repeat(n) == [k \in 1 .. n |-> "z"]

\* Texts a TextGeneration is mounted with: short ones, one of exactly LongLimit
\* characters and one of LongLimit + 1.
MountTexts ==
  { <<>>, <<"a">>, <<"a", "b">>, <<"a", "b", "c">>, <<"a", "b", "c", "d">>,
    <<"x", "y", "z", "w", "v">>, Repeat(LongLimit), Repeat(LongLimit + 1) }

\* Texts of the renders whose props change.
PropTexts ==
  { <<>>, <<"a", "b", "c">>, <<"x", "y", "z", "w", "v">>, Repeat(LongLimit + 1) }

\* useState(animate ? '' : text)
InitialVisible(t, a) == IF a THEN <<>> ELSE t

\* The first render of a TextGeneration with props (t, a).
Mount(t, a) ==
  /\ text = t
  /\ animate = a
  /\ visible = InitialVisible(t, a)
  /\ mounted = TRUE
  /\ animEffectPending = TRUE
  /\ effects = <<>>
  /\ cleanup = 0
  /\ timers = {}
  /\ propChanges = 0

\* The effect returns before line 13: the whole text is set, nothing is scheduled.
BypassMut(t, a) == ~a
Bypass(t, a) == ~a \/ Len(t) > LongLimit

\* () => { cancelled = true; clearTimeout(starter) } of effect run k (0: none)
CancelledBy(k) ==
  [e \in DOMAIN effects |-> IF e = k THEN [effects[e] EXCEPT !.cancelled = TRUE]
                            ELSE effects[e]]

ClearedBy(k) == timers \ {[eff |-> k, kind |-> "starter"]}

\* useEffect(() => {...}, [text, animate]): the cleanup of the previous run, then
\* the body.
RunEffect ==
  /\ mounted
  /\ animEffectPending
  /\ animEffectPending' = FALSE
  /\ IF Bypass(text, animate)
     THEN /\ visible' = text
          /\ effects' = CancelledBy(cleanup)
          /\ timers' = ClearedBy(cleanup)
          /\ cleanup' = 0
     ELSE /\ effects' = Append(CancelledBy(cleanup),
                               [text |-> text, i |-> 0, cancelled |-> FALSE])
          /\ timers' = ClearedBy(cleanup) \cup {[eff |-> Len(effects) + 1, kind |-> "starter"]}
          /\ cleanup' = Len(effects) + 1
          /\ UNCHANGED visible
  /\ UNCHANGED <<text, animate, mounted, propChanges>>
  /\ UNCHANGED <<chatVars, msgVars>>

\* if(cancelled) return
StepRunsMut(c) == TRUE
StepRuns(c) == ~c.cancelled

\* i += 2
NextIMut(i) == i + 1
NextI(i) == i + 2

\* if(i < len) setTimeout(step, timeout)
Reschedule(i, len) == i < len

\* A pending timer fires: step() of effect run tm.eff.
Fire(tm) ==
  /\ tm \in timers
  /\ LET c == effects[tm.eff]
         i2 == NextI(c.i)
     IN  IF StepRuns(c)
         THEN /\ effects' = [effects EXCEPT ![tm.eff].i = i2]
              /\ visible' = Slice(c.text, i2)
              /\ timers' = (timers \ {tm}) \cup
                   (IF Reschedule(i2, Len(c.text))
                    THEN {[eff |-> tm.eff, kind |-> "step"]} ELSE {})
         ELSE /\ timers' = timers \ {tm}
              /\ UNCHANGED <<effects, visible>>
  /\ UNCHANGED <<text, animate, mounted, animEffectPending, cleanup, propChanges>>
  /\ UNCHANGED <<chatVars, msgVars>>

\* The parent renders the instance with other props: the effect is scheduled.
ChangeProps(t, a) ==
  /\ mounted
  /\ ~animEffectPending
  /\ propChanges < MaxChanges
  /\ <<t, a>> # <<text, animate>>
  /\ text' = t
  /\ animate' = a
  /\ animEffectPending' = TRUE
  /\ propChanges' = propChanges + 1
  /\ UNCHANGED <<visible, mounted, effects, cleanup, timers>>
  /\ UNCHANGED <<chatVars, msgVars>>

\* The instance is removed: the cleanup of the last effect run.
Unmount ==
  /\ mounted
  /\ ~animEffectPending
  /\ mounted' = FALSE
  /\ effects' = CancelledBy(cleanup)
  /\ timers' = ClearedBy(cleanup)
  /\ cleanup' = 0
  /\ UNCHANGED <<text, animate, visible, animEffectPending, propChanges>>
  /\ UNCHANGED <<chatVars, msgVars>>

\* {visible !== text && <span className="cursor">}
Cursor == visible # text

\* A TextGeneration as Chat mounts it: its props never change (messages are only
\* appended and never edited) and it is never removed.
InitAnim == ChatInit /\ MsgOff /\ \E t \in MountTexts, a \in BOOLEAN : Mount(t, a)

NextAnim ==
  \/ RunEffect
  \/ \E tm \in timers : Fire(tm)

SpecAnim == InitAnim /\ [][NextAnim]_vars

\* The same, with every scheduled effect and timer callback eventually run.
SpecAnimFair == SpecAnim /\ WF_vars(NextAnim)

\* A TextGeneration under a parent that changes its props and removes it.
InitProps == ChatInit /\ MsgOff /\ \E t \in PropTexts, a \in BOOLEAN : Mount(t, a)

NextProps ==
  \/ RunEffect
  \/ \E tm \in timers : Fire(tm)
  \/ \E t \in PropTexts, a \in BOOLEAN : ChangeProps(t, a)
  \/ Unmount

SpecProps == InitProps /\ [][NextProps]_vars

\* ------------------------------------------------------------------ Message
\* Message({m}): match, tool, content, animate
RenderMessage ==
  /\ ~msgRendered
  /\ LET match == ToolMatch(m.text)
     IN  /\ tool' = IF match.matched THEN Str(match.g1) ELSE Null
         /\ content' = IF match.matched THEN match.g2 ELSE m.text
  /\ animateMsg' = (m.from = "bot")
  /\ msgRendered' = TRUE
  /\ UNCHANGED m
  /\ UNCHANGED <<chatVars, animVars>>

InitMsg ==
  /\ ChatInit /\ AnimOff
  /\ m \in [from : {"user", "bot"}, text : MsgTexts]
  /\ tool = Null
  /\ content = <<>>
  /\ animateMsg = FALSE
  /\ msgRendered = FALSE

NextMsg == RenderMessage

SpecMsg == InitMsg /\ [][NextMsg]_vars

\* ------------------------------------------------- TextGeneration claims
TimersOf(k) == { tm \in timers : tm.eff = k }

\* step() of some effect run got past its cancelled test in this transition.
Stepped == \E k \in DOMAIN effects : effects'[k].i # effects[k].i

\* C6 as the claim states it: once an effect run is torn down, no step of it
\* changes the disclosed text and no timer it scheduled is still pending (the
\* chained timer of line 25 is never cleared, so the second part fails).
C6_NoTimerOutlivesTeardown ==
  /\ [](\A tm \in timers : ~effects[tm.eff].cancelled)
  /\ [][\A tm \in timers :
          (effects[tm.eff].cancelled /\ tm \notin timers') => visible' = visible]_vars

\* C6, amended: once an effect run is torn down its starter timer is not pending,
\* at most one chained step timer of it is, and when that timer fires the step
\* returns at once: the disclosed text and the closures are unchanged and nothing
\* is scheduled; after the component is removed the disclosed text never changes.
C6_TeardownSilencesSteps ==
  /\ [](\A k \in DOMAIN effects :
          effects[k].cancelled =>
            /\ [eff |-> k, kind |-> "starter"] \notin timers
            /\ Cardinality(TimersOf(k)) <= 1)
  /\ [][\A tm \in timers :
          (effects[tm.eff].cancelled /\ tm \notin timers') =>
            (visible' = visible /\ effects' = effects /\ timers' = timers \ {tm})]_vars
  /\ [][~mounted => visible' = visible]_vars

\* An effect run torn down in the middle of its reveal whose chained timer has
\* since fired: the reveal stopped where the teardown found it.
C6_Witness ==
  \E k \in DOMAIN effects :
    /\ effects[k].cancelled
    /\ 0 < effects[k].i /\ effects[k].i < Len(effects[k].text)
    /\ TimersOf(k) = {}
    /\ ~mounted
    /\ visible = Slice(effects[k].text, effects[k].i)

\* C7 as the claim states it: once the effect has restarted for a new target
\* string, the disclosure is empty until the new reveal's first step and a prefix
\* of the new string from then on (the visible state is not reset, so the old
\* string's prefix stays displayed until the first step of the new reveal).
C7_RestartResetsToIdle ==
  (/\ mounted /\ ~animEffectPending
   /\ cleanup > 1
   /\ effects[cleanup - 1].text # effects[cleanup].text)
    => /\ effects[cleanup].i = 0 => visible = <<>>
       /\ effects[cleanup].i > 0 => visible = Slice(text, effects[cleanup].i)

\* C8 as the claim states it: every executed step strictly increases the
\* disclosed length (fails for L = 0, whose single step discloses nothing).
C8_EveryStepIncreases ==
  [][Stepped => Len(visible') > Len(visible)]_vars

\* C8, amended: for a TextGeneration mounted with animate = true and a text of
\* length L <= 1200, every executed step sets the disclosed length to
\* min(previous + 2, L), which is a strict increase when L >= 1; a step is
\* scheduled after it exactly when the disclosed length is still below L; the
\* reveal takes ceil(L / 2) steps (one step, disclosing nothing, when L = 0) and
\* then stays complete with no timer pending.
C8_RevealByTwo ==
  /\ [][Stepped =>
          /\ Len(visible') = Min(Len(visible) + 2, Len(text))
          /\ Len(text) > 0 => Len(visible') > Len(visible)
          /\ Len(visible) < Len(text) \/ Len(text) = 0
          /\ (Len(visible') < Len(text)) <=> (timers' # {})]_vars
  /\ []((animate /\ Len(text) <= LongLimit /\ ~animEffectPending /\ timers = {}) =>
          /\ visible = text
          /\ effects # <<>>
          /\ effects[1].i = 2 * (IF Len(text) = 0 THEN 1 ELSE (Len(text) + 1) \div 2))
  /\ <>[](visible = text /\ timers = {} /\ ~animEffectPending)

\* The reveal of a text of odd length has completed, the last step disclosing one
\* character.
C8_Witness ==
  /\ animate /\ Len(text) = 5
  /\ visible = text
  /\ effects # <<>> /\ effects[1].i = 6
  /\ timers = {}

\* C9 as the claim states it: the displayed text is a prefix of the current
\* target, never longer than it, never shrinking while the target stays, and the
\* cursor shows exactly when the disclosed length is below the target's.
C9_PrefixMonotoneCursor ==
  /\ []((mounted /\ ~animEffectPending) =>
          /\ IsPrefix(visible, text)
          /\ Len(visible) <= Len(text)
          /\ Cursor <=> (Len(visible) < Len(text)))
  /\ [][(mounted /\ text' = text /\ animate' = animate) =>
          Len(visible') >= Len(visible)]_vars

IsSuccess(res) == res.kind = "res" /\ res.ok /\ res.body.kind = "json"

\* A response field that carries an identifier or a text: the protocol writes
\* "no identifier" as the empty string, so an empty thread_id carries none.
Given(v) == v.t = "str" /\ v.s # <<>>

IdByClaim(data, before) ==
  IF Given(data.thread_id) THEN data.thread_id
  ELSE IF Given(data.threadId) THEN data.threadId
  ELSE before

C12_ReplyFollowsItsUserMessage ==
  \A j \in DOMAIN messages :
    messages[j].from = "bot"
      => /\ j > 1
         /\ messages[j - 1].from = "user"
         /\ messages[j - 1].sid = messages[j].sid

\* The text is empty or white space only.
AllSpace(s) == \A i \in DOMAIN s : IsSpace(s[i])

\* C14: a call of sendMessage with an input that is empty or white space only
\* appends no message, issues no request, and leaves input, loading and the
\* conversation identifier (in memory and persisted) unchanged.
C14_BlankSendIsNoOp ==
  [][(lastOp' \in {"noop", "send"} /\ AllSpace(input))
       => /\ messages' = messages
          /\ reqs' = reqs /\ issued' = issued /\ nextSid' = nextSid
          /\ input' = input
          /\ loading' = loading
          /\ threadId' = threadId /\ storage' = storage]_vars

\* sendMessage has returned early on a white-space input while a request of an
\* earlier send is outstanding.
C14_Witness ==
  lastOp = "noop" /\ input = <<" ">> /\ loading /\ reqs # {} /\ Len(messages) = 1

\* The field is in the response body.
Present(v) == v.t # "undefined"

TextByPresence(data) ==
  IF Present(data.response_content) THEN data.response_content.s
  ELSE IF Present(data.response) THEN data.response.s
  ELSE NoResponse

TextByContent(data) ==
  IF Given(data.response_content) THEN data.response_content.s
  ELSE IF Given(data.response) THEN data.response.s
  ELSE NoResponse

\* C15, as the claim states it: the assistant message appended for a successful
\* response carries response_content if that field is present, else response if
\* present, and "No response" only if both are absent (a present but empty
\* field is passed over, so this is violated).
C15_PresentFieldElseNoResponse ==
  (lastOp = "resolve" /\ IsSuccess(lastRes))
    => messages[Len(messages)].text = TextByPresence(lastRes.body.data)

\* C15: the assistant message appended for a successful response carries
\* response_content if that field is present and non-empty, else response if
\* present and non-empty, and "No response" otherwise.
C15_NonEmptyFieldElseNoResponse ==
  (lastOp = "resolve" /\ IsSuccess(lastRes))
    => /\ messages[Len(messages)].from = "bot"
       /\ messages[Len(messages)].text = TextByContent(lastRes.body.data)

\* A response whose response field is the empty string has been answered with
\* "No response".
C15_Witness ==
  /\ lastOp = "resolve" /\ IsSuccess(lastRes)
  /\ lastRes.body.data.response = Str(<<>>)
  /\ messages[Len(messages)].text = NoResponse

\* A transport error: fetch rejected, the status is not 2xx, or the body of a
\* 2xx response does not parse.
IsFailure(res) ==
  \/ res.kind = "net"
  \/ res.kind = "res" /\ (~res.ok \/ res.body.kind # "json")

\* The errors whose message the runtime supplies.
IsRuntimeError(res) == res.kind = "net" \/ (res.kind = "res" /\ res.ok)

\* C16: the handling of a transport error appends exactly one assistant message,
\* whose text is "Error: " followed by a non-empty error message (the message of
\* the runtime's exception when it has one, the body's detail for a non-2xx
\* response that carries one), issues no request, changes no identifier, and
\* ends with loading false.
C16_ErrorBecomesOneMessage ==
  [][(lastOp' = "resolve" /\ IsFailure(lastRes'))
       => LET last == messages'[Len(messages')]
              res == lastRes'
          IN  /\ Len(messages') = Len(messages) + 1
              /\ SubSeq(messages', 1, Len(messages)) = messages
              /\ last.from = "bot"
              /\ Len(last.text) > Len(ErrorPrefix)
              /\ SubSeq(last.text, 1, Len(ErrorPrefix)) = ErrorPrefix
              /\ (IsRuntimeError(res) /\ res.errmsg # <<>>)
                   => last.text = ErrorPrefix \o res.errmsg
              /\ (res.kind = "res" /\ ~res.ok /\ res.body.kind = "json"
                     /\ Given(res.body.data.detail))
                   => last.text = ErrorPrefix \o res.body.data.detail.s
              /\ ~loading'
              /\ reqs' \subseteq reqs /\ Cardinality(reqs') = Cardinality(reqs) - 1
              /\ issued' = issued /\ nextSid' = nextSid
              /\ threadId' = threadId /\ ~effectPending']_vars

\* A rejected fetch has been turned into "Error: Ff" and sending is enabled again.
C16_Witness ==
  /\ lastOp = "resolve" /\ lastRes.kind = "net"
  /\ messages[Len(messages)] = [from |-> "bot", text |-> ErrorPrefix \o <<"F", "f">>,
                                 sid |-> messages[Len(messages)].sid]
  /\ ~loading /\ reqs = {}

\* C17: the loading flag is true exactly when a request is outstanding (stated
\* as the claim states it; with two sends overlapped through the Enter key the
\* first settlement sets loading false while the second request is outstanding).
C17_LoadingIffOutstanding == loading <=> (reqs # {})

\* C18: every message of the transcript has a non-empty text: a user message
\* carries its trimmed, non-empty input, and an error message carries a
\* non-empty description after "Error: ".
C18_NoEmptyText ==
  \A i \in DOMAIN messages :
    LET txt == messages[i].text
    IN  /\ txt # <<>>
        /\ messages[i].from = "user" => (txt = Trim(txt) /\ ~AllSpace(txt))
        /\ (messages[i].from = "bot" /\ Len(txt) >= Len(ErrorPrefix)
               /\ SubSeq(txt, 1, Len(ErrorPrefix)) = ErrorPrefix)
             => Len(txt) > Len(ErrorPrefix)

\* One transcript holds a reply that fell back to "No response" and an error
\* that fell back to "unknown error".
C18_Witness ==
  \E i, j \in DOMAIN messages :
    /\ messages[i].from = "bot" /\ messages[i].text = NoResponse
    /\ messages[j].from = "bot" /\ messages[j].text = ErrorPrefix \o UnknownError

\* ---------------------------------------------------------- Message claims
\* The text opens as a tool annotation does.
StartsLikeTool(t) ==
  Len(t) >= Len(ToolOpen) /\ [i \in 1..Len(ToolOpen) |-> Lower(t[i])] = ToolOpen

\* The positions c of t at which t reads "(tool: NAME) REST" with the ")" at c:
\* NAME is t[8..c-1], has no ")" and does not start with white space; REST is
\* all of t after the space that follows the ")", and does not start with
\* white space.
FormCloses(t) ==
  { c \in 9..(Len(t) - 1) :
      /\ SubSeq(t, 1, 7) = ToolOpen \o <<" ">>
      /\ ~IsSpace(t[8])
      /\ t[c] = ")" /\ \A k \in 8..(c - 1) : t[k] # ")"
      /\ t[c + 1] = " "
      /\ (c + 2 <= Len(t) => ~IsSpace(t[c + 2])) }

\* C13: a rendered message of the form "(tool: NAME) REST_OF_TEXT" has tool label
\* NAME and body the whole REST_OF_TEXT, later lines included; a message that
\* does not open as a tool annotation has no label and its text as body (stated
\* as the claim states it; the body stops at the first line break of the rest).
C13_ToolAndWholeBody ==
  msgRendered =>
    /\ \A c \in FormCloses(m.text) :
         /\ tool = Str(SubSeq(m.text, 8, c - 1))
         /\ content = SubSeq(m.text, c + 2, Len(m.text))
    /\ ~StartsLikeTool(m.text) => (tool = Null /\ content = m.text)
====
